---- MODULE Spec2Model ----
(***************************************************************************)
(* The per-iteration bounce loop of the CUDA path tracer                   *)
(* (src/src/pathtrace.cu): pathtraceInit, generateRayFromCamera,           *)
(* computeIntersections, shadeMaterial, thrust::partition with             *)
(* has_no_bounces, finalGather, and the host loop of pathtrace.            *)
(*                                                                         *)
(* Every kernel launch is one step: the threads of one launch touch        *)
(* disjoint slots and the host synchronises between launches.              *)
(* Floats are fixed point: One stands for 1.0f.  A ray is one of a few     *)
(* directions; a scene gives, for every primitive and direction, the       *)
(* distance its intersection test returns (-1 for no hit).  Fields whose   *)
(* names start with g_ and the variables g_* are history variables: the    *)
(* program never reads them.                                               *)
(***************************************************************************)
EXTENDS Integers, Sequences, FiniteSets

\* ------------------------------------------------------------------ bounds
MaxPixels     == 2   \* largest cam.resolution.x * cam.resolution.y
MaxTraceDepth == 2   \* largest hst_scene->state.traceDepth
MaxIter       == 2   \* calls of pathtrace in one session
MaxGeoms      == 2   \* primitives in dev_geoms, in the single-ray checks
MaxTris       == 2   \* triangles in dev_triangles, in the single-ray checks
MaxT          == 2   \* largest distance an intersection test returns

\* 1.0f in fixed point
One == 4

FLT_MAX == MaxT + 2

\* ------------------------------------------------------------------ colours
Vec3(r, g, b) == <<r, g, b>>

White == Vec3(One, One, One)

Black == Vec3(0, 0, 0)

\* glm::vec3 operator* (component-wise), operator* by a float, operator+
MulVec(a, b) == [k \in 1..3 |-> (a[k] * b[k]) \div One]

ScaleVec(a, s) == [k \in 1..3 |-> a[k] * s]

AddVec(a, b) == [k \in 1..3 |-> a[k] + b[k]]

\* ------------------------------------------------------------------ scenes
RayDirs == {"a", "b", "c"}

LightMat == [color |-> White, emittance |-> 2]

RedMat == [color |-> Vec3(One, 0, 0), emittance |-> 0]

Geom(type, materialid, ta, tb, tc) ==
    [type |-> type, materialid |-> materialid,
     t |-> [d \in RayDirs |-> IF d = "a" THEN ta ELSE IF d = "b" THEN tb ELSE tc]]

\* no geometry at all
EmptyScene ==
    [name |-> "empty", geoms |-> << >>, triangles |-> << >>,
     materials |-> <<RedMat>>]

\* one emissive box that every ray hits
EmissiveScene ==
    [name |-> "emissive",
     geoms |-> <<Geom("CUBE", 0, 1, 1, 1)>>,
     triangles |-> << >>,
     materials |-> <<LightMat>>]

\* a diffuse sphere under a light: "a" sees the light, "b" the sphere, "c" nothing
BoxScene ==
    [name |-> "box",
     geoms |-> <<Geom("SPHERE", 1, -1, 1, -1), Geom("CUBE", 0, 2, 2, -1)>>,
     triangles |-> << >>,
     materials |-> <<LightMat, RedMat>>]

\* a mesh behind a bounding volume: "a" hits the emissive triangle, "b" the
\* diffuse one in front of it, "c" misses the bounding volume
MeshScene ==
    [name |-> "mesh",
     geoms |-> <<Geom("BV", 0, 1, 1, -1)>>,
     triangles |-> <<Geom("TRIANGLE", 0, 2, 2, -1), Geom("TRIANGLE", 1, -1, 1, -1)>>,
     materials |-> <<LightMat, RedMat>>]

Scenes == {EmptyScene, EmissiveScene, BoxScene, MeshScene}

\* the primitives as one ray sees them: each with the distance its test returns
ForRay(prims, d) ==
    [i \in DOMAIN prims |->
        [type |-> prims[i].type, materialid |-> prims[i].materialid, t |-> prims[i].t[d]]]

\* --------------------------------------------------- computeIntersections
boundingVolumeIntersectionTest(geom) == geom.t > 0

\* fault: line 277 without the comparison with t_min
RECURSIVE TriangleLoop_nocompare(_, _, _)
TriangleLoop_nocompare(tris, p, st) ==
    IF p > Len(tris) THEN st
    ELSE LET t == tris[p].t
             nx == IF t > 0
                   THEN [t |-> t, t_min |-> t, hit_geom_index |-> p - 1, hitmesh |-> TRUE]
                   ELSE [st EXCEPT !.t = t]
         IN TriangleLoop_nocompare(tris, p + 1, nx)

\* lines 274-286: the scan of dev_triangles inside a bounding volume that was hit
RECURSIVE TriangleLoop(_, _, _)
TriangleLoop(tris, p, st) ==
    IF p > Len(tris) THEN st
    ELSE LET t == tris[p].t
             nx == IF t > 0 /\ st.t_min > t
                   THEN [t |-> t, t_min |-> t, hit_geom_index |-> p - 1, hitmesh |-> TRUE]
                   ELSE [st EXCEPT !.t = t]
         IN TriangleLoop(tris, p + 1, nx)

\* lines 255-323: the scan of dev_geoms; st.t is the local t, which keeps its
\* previous value when a BV node assigns nothing to it
RECURSIVE GeomLoop(_, _, _, _)
GeomLoop(gs, tris, i, st) ==
    IF i > Len(gs) THEN st
    ELSE LET geom == gs[i]
             s1 == IF geom.type \in {"CUBE", "SPHERE"} THEN [st EXCEPT !.t = geom.t]
                   ELSE IF geom.type = "BV" /\ boundingVolumeIntersectionTest(geom)
                        THEN TriangleLoop(tris, 1, st)
                        ELSE st
             s2 == IF s1.t > 0 /\ s1.t_min > s1.t /\ ~s1.hitmesh
                   THEN [s1 EXCEPT !.t_min = s1.t, !.hit_geom_index = i - 1]
                   ELSE s1
         IN GeomLoop(gs, tris, i + 1, s2)

\* lines 239-341 for one thread: `old` is intersections[path_index] before the
\* call, `t0` the value the uninitialised local t happens to hold
computeIntersection(gs, tris, old, t0) ==
    LET st == GeomLoop(gs, tris, 1,
                  [t |-> t0, t_min |-> FLT_MAX, hit_geom_index |-> -1, hitmesh |-> FALSE])
    IN IF st.hit_geom_index = -1
       THEN [old EXCEPT !.t = -1]
       ELSE [old EXCEPT !.t = st.t_min,
                        !.materialId = IF ~st.hitmesh
                                       THEN gs[st.hit_geom_index + 1].materialid
                                       ELSE tris[st.hit_geom_index + 1].materialid]

\* the local t is read before it is written exactly when the first primitive
\* is a BV node that assigns nothing: then any float may be in it
Garbage == -1 .. MaxT

UninitT(gs, tris) ==
    IF Len(gs) > 0 /\ gs[1].type = "BV"
       /\ (~boundingVolumeIntersectionTest(gs[1]) \/ Len(tris) = 0)
    THEN Garbage ELSE {0}

\* ------------------------------------------------------------------ state
VARIABLES
    cam,                \* hst_scene->state.camera: [resolution |-> [x, y]]
    traceDepth,         \* hst_scene->state.traceDepth
    scene,              \* dev_geoms, dev_triangles, dev_materials
    CACHEBOUNCE,        \* the compile-time switches of lines 21-23
    MATERIALS,
    iter,               \* the iter argument of the last call of pathtrace
    depth,
    num_paths,
    pc,                 \* where the host is inside pathtrace
    dev_paths,
    dev_first_paths,
    dev_intersections,
    dev_image,
    g_passes,           \* shadeMaterial launches in this call
    g_shades,           \* per path: launches that had it in [0, num_paths)
    g_emit,             \* per path: the launch in which it hit an emitter, or 0
    g_miss,             \* per path: the launch that shaded it as a miss, or 0
    g_gathered,         \* per path: times finalGather added it in this call
    g_sum,              \* per pixel: sum of the final colours of its paths
    g_keys,             \* the random engines made in this call, with their keys
    q,                  \* the single-ray checks of computeIntersections
    twin                \* a second run of the same call, for comparing two runs

vars == <<cam, traceDepth, scene, CACHEBOUNCE, MATERIALS, iter, depth, num_paths, pc,
          dev_paths, dev_first_paths, dev_intersections, dev_image,
          g_passes, g_shades, g_emit, g_miss, g_gathered, g_sum, g_keys, q, twin>>

config == <<cam, traceDepth, scene, CACHEBOUNCE, MATERIALS>>

ghosts == <<g_passes, g_shades, g_emit, g_miss, g_gathered, g_sum, g_keys>>

pixelcount == cam.resolution.x * cam.resolution.y

Slots == 0 .. pixelcount - 1

Resolutions == {r \in [x : 1..MaxPixels, y : 1..MaxPixels] : r.x * r.y <= MaxPixels}

\* what cudaMalloc leaves in dev_paths and dev_first_paths: every slot is
\* written by generateRayFromCamera or cudaMemcpy before any kernel reads it
UnsetPath ==
    [ray |-> "a", color |-> Black, pixelIndex |-> 0, remainingBounces |-> 0, g_id |-> -1]

\* cudaMemset(dev_intersections, 0, ...)
ZeroIntersection == [t |-> 0, materialId |-> 0, g_src |-> << >>]

ClearIntersections == [s \in Slots |-> ZeroIntersection]

\* ------------------------------------------------------------------ kernels
\* lines 58-62: the seed is a hash of the three arguments; the engine stands
\* for the triple it was made from
makeSeededRandomEngine(it, index, d) == [iter |-> it, index |-> index, depth |-> d]

\* line 173: the engine of the thread of pixel (x, y)
GenEngines(camr, it) ==
    {[by |-> "generateRayFromCamera", x |-> x, y |-> y,
      rng |-> makeSeededRandomEngine(it, x, y)] :
        x \in 0 .. camr.resolution.x - 1, y \in 0 .. camr.resolution.y - 1}

\* line 415: the engine of the thread idx of the launch at depth d, made when
\* the path has bounces left and a hit
ShadeEngines(it, n, isects, paths, d) ==
    {[by |-> "shadeMaterial", x |-> idx, y |-> d,
      rng |-> makeSeededRandomEngine(it, idx, d)] :
        idx \in {i \in DOMAIN paths :
                    i < n /\ isects[i].t > 0 /\ paths[i].remainingBounces > 0}}

\* lines 173-182: the direction the ray through pixel (x, y) falls in; the
\* jitter moves a ray inside its own pixel only, so the pixel decides it
PixelDir(x, y) == IF (x + y) % 3 = 0 THEN "a" ELSE "b"

\* fault: line 206 stores the column instead of the index
generateRayFromCamera_column(camr, td) ==
    LET coords == {c \in (0 .. camr.resolution.x - 1) \X (0 .. camr.resolution.y - 1) : TRUE}
        at(index) == CHOOSE c \in coords : c[1] + c[2] * camr.resolution.x = index
    IN [index \in 0 .. camr.resolution.x * camr.resolution.y - 1 |->
           LET x == at(index)[1]
               y == at(index)[2]
           IN [ray |-> PixelDir(x, y),
               color |-> White,
               pixelIndex |-> x,
               remainingBounces |-> td,
               g_id |-> index]]

\* lines 161-209
generateRayFromCamera(camr, td) ==
    LET coords == {c \in (0 .. camr.resolution.x - 1) \X (0 .. camr.resolution.y - 1) : TRUE}
        at(index) == CHOOSE c \in coords : c[1] + c[2] * camr.resolution.x = index
    IN [index \in 0 .. camr.resolution.x * camr.resolution.y - 1 |->
           LET x == at(index)[1]
               y == at(index)[2]
           IN [ray |-> PixelDir(x, y),
               color |-> White,
               pixelIndex |-> x + y * camr.resolution.x,
               remainingBounces |-> td,
               g_id |-> index]]

\* fault: every thread intersects the ray of slot 0
computeIntersections_slot0(d, n, pathSegments, sc, intersections, uninit, it) ==
    [path_index \in DOMAIN intersections |->
        IF path_index < n
        THEN LET ray == pathSegments[0].ray
                 r == computeIntersection(ForRay(sc.geoms, ray), ForRay(sc.triangles, ray),
                                          intersections[path_index], uninit[0])
             IN [r EXCEPT !.g_src = <<it, d, pathSegments[0].g_id>>]
        ELSE intersections[path_index]]

\* lines 224-343; only threads with path_index < num_paths write
computeIntersections(d, n, pathSegments, sc, intersections, uninit, it) ==
    [path_index \in DOMAIN intersections |->
        IF path_index < n
        THEN LET ray == pathSegments[path_index].ray
                 r == computeIntersection(ForRay(sc.geoms, ray), ForRay(sc.triangles, ray),
                                          intersections[path_index], uninit[path_index])
             IN [r EXCEPT !.g_src = <<it, d, pathSegments[path_index].g_id>>]
        ELSE intersections[path_index]]

\* the draws of the uninitialised local t, one per thread
UninitDraws(n, pathSegments, sc) ==
    LET need(i) == IF i < n
                   THEN UninitT(ForRay(sc.geoms, pathSegments[i].ray),
                                ForRay(sc.triangles, pathSegments[i].ray))
                   ELSE {0}
    IN {u \in [DOMAIN pathSegments -> Garbage \cup {0}] :
            \A i \in DOMAIN pathSegments : u[i] \in need(i)}

\* interactions.h: the throughput is attenuated by the material's colour and
\* the ray leaves the cached intersection point in a sampled direction
scatterRay(path, material, dir) ==
    [path EXCEPT !.color = MulVec(path.color, material.color), !.ray = dir]

\* fault: a miss paints the path white
shadeOne_missWhite(intersection, path, mats, dir) ==
    IF intersection.t > 0 /\ path.remainingBounces > 0
    THEN LET material == mats[intersection.materialId + 1]
         IN IF material.emittance > 0
            THEN [path EXCEPT
                     !.color = MulVec(path.color, ScaleVec(material.color, material.emittance)),
                     !.remainingBounces = 0]
            ELSE LET p == scatterRay(path, material, dir)
                 IN [p EXCEPT !.remainingBounces = p.remainingBounces - 1]
    ELSE IF path.remainingBounces > 0
         THEN [path EXCEPT !.color = White, !.remainingBounces = 0]
         ELSE path

\* fault: a hit on a light does not end the path
shadeOne_lightKeepsBounces(intersection, path, mats, dir) ==
    IF intersection.t > 0 /\ path.remainingBounces > 0
    THEN LET material == mats[intersection.materialId + 1]
         IN IF material.emittance > 0
            THEN [path EXCEPT
                     !.color = MulVec(path.color, ScaleVec(material.color, material.emittance))]
            ELSE LET p == scatterRay(path, material, dir)
                 IN [p EXCEPT !.remainingBounces = p.remainingBounces - 1]
    ELSE IF path.remainingBounces > 0
         THEN [path EXCEPT !.color = Black, !.remainingBounces = 0]
         ELSE path

\* lines 410-443 for one thread
shadeOne(intersection, path, mats, dir) ==
    IF intersection.t > 0 /\ path.remainingBounces > 0
    THEN LET material == mats[intersection.materialId + 1]
         IN IF material.emittance > 0
            THEN [path EXCEPT
                     !.color = MulVec(path.color, ScaleVec(material.color, material.emittance)),
                     !.remainingBounces = 0]
            ELSE LET p == scatterRay(path, material, dir)
                 IN [p EXCEPT !.remainingBounces = p.remainingBounces - 1]
    ELSE IF path.remainingBounces > 0
         THEN [path EXCEPT !.color = Black, !.remainingBounces = 0]
         ELSE path

\* lines 398-446
shadeMaterial(n, shadeableIntersections, pathSegments, mats, dirs) ==
    [idx \in DOMAIN pathSegments |->
        IF idx < n
        THEN shadeOne(shadeableIntersections[idx], pathSegments[idx], mats, dirs[idx])
        ELSE pathSegments[idx]]

\* the slots whose thread calls scatterRay, and so samples a direction
Scattering(n, isects, paths, mats) ==
    {idx \in DOMAIN paths :
        /\ idx < n
        /\ isects[idx].t > 0
        /\ paths[idx].remainingBounces > 0
        /\ mats[isects[idx].materialId + 1].emittance = 0}

ScatterDraws(n, isects, paths, mats) ==
    {dd \in [DOMAIN paths -> RayDirs] :
        \A idx \in DOMAIN paths : idx \notin Scattering(n, isects, paths, mats) => dd[idx] = "a"}

\* fault: the predicate keeps terminated paths in the first part
has_no_bounces_all(path) == path.remainingBounces >= 0

\* fault: the predicate does what its name says
has_no_bounces_literal(path) == path.remainingBounces = 0

\* lines 51-56
has_no_bounces(path) == path.remainingBounces > 0

Injections(n) ==
    {f \in [0 .. n - 1 -> 0 .. n - 1] : \A i, j \in 0 .. n - 1 : f[i] = f[j] => i = j}

\* fault: line 617 left out, num_paths keeps its value
partition_sameCount(paths, n) ==
    LET count == Cardinality({i \in 0 .. n - 1 : has_no_bounces(paths[i])})
    IN {[paths |-> [i \in DOMAIN paths |-> IF i < n THEN paths[f[i]] ELSE paths[i]],
         end |-> n] :
            f \in {g \in Injections(n) :
                      \A i \in 0 .. n - 1 : has_no_bounces(paths[g[i]]) <=> i < count}}

\* fault: the partition runs over the whole of dev_paths
partition_whole(paths, n) ==
    LET all == Cardinality(DOMAIN paths)
        count == Cardinality({i \in DOMAIN paths : has_no_bounces(paths[i])})
    IN {[paths |-> [i \in DOMAIN paths |-> paths[f[i]]], end |-> count] :
            f \in {g \in Injections(all) :
                      \A i \in DOMAIN paths : has_no_bounces(paths[g[i]]) <=> i < count}}

\* line 616: thrust::partition over [dev_paths, dev_paths + n); the order
\* inside each part is whatever the library leaves
partition(paths, n) ==
    LET count == Cardinality({i \in 0 .. n - 1 : has_no_bounces(paths[i])})
    IN {[paths |-> [i \in DOMAIN paths |-> IF i < n THEN paths[f[i]] ELSE paths[i]],
         end |-> count] :
            f \in {g \in Injections(n) :
                      \A i \in 0 .. n - 1 : has_no_bounces(paths[g[i]]) <=> i < count}}

\* fault: the exit test looks at the depth only
iterationComplete_depthOnly(d, td, n) == d = td

\* line 621
iterationComplete(d, td, n) == d = td \/ n = 0

\* fault: line 622 left out, finalGather runs over the active paths only
GatherCount_active(n, pixels) == n

\* line 622: the count handed to finalGather
GatherCount(n, pixels) == pixels

\* lines 455-456 for the thread `index`
gatherThread(image, iterationPaths, index) ==
    LET iterationPath == iterationPaths[index]
    IN [image EXCEPT ![iterationPath.pixelIndex] = AddVec(@, iterationPath.color)]

\* the threads 0 .. nPaths - 1 of a launch, one after the other
RECURSIVE GatherThreads(_, _, _)
GatherThreads(nPaths, image, iterationPaths) ==
    IF nPaths = 0 THEN image
    ELSE gatherThread(GatherThreads(nPaths - 1, image, iterationPaths),
                      iterationPaths, nPaths - 1)

\* fault: the thread stores its colour instead of adding it
RECURSIVE finalGather_overwrite(_, _, _)
finalGather_overwrite(nPaths, image, iterationPaths) ==
    IF nPaths = 0 THEN image
    ELSE [finalGather_overwrite(nPaths - 1, image, iterationPaths)
             EXCEPT ![iterationPaths[nPaths - 1].pixelIndex] = iterationPaths[nPaths - 1].color]

\* fault: the thread adds into the slot of its own index, not into pixelIndex
RECURSIVE finalGather_bySlot(_, _, _)
finalGather_bySlot(nPaths, image, iterationPaths) ==
    IF nPaths = 0 THEN image
    ELSE [finalGather_bySlot(nPaths - 1, image, iterationPaths)
             EXCEPT ![nPaths - 1] = AddVec(@, iterationPaths[nPaths - 1].color)]

\* lines 450-458
finalGather(nPaths, image, iterationPaths) == GatherThreads(nPaths, image, iterationPaths)

\* fault: the keys of the paths are the thread indices
setMaterialIds_index(n, intersections) ==
    [pathIds |-> [index \in 0 .. n - 1 |-> index],
     isectIds |-> [index \in 0 .. n - 1 |-> intersections[index].materialId]]

\* lines 211-217: the two key arrays, up to num_paths
setMaterialIds(n, intersections) ==
    [pathIds |-> [index \in 0 .. n - 1 |-> intersections[index].materialId],
     isectIds |-> [index \in 0 .. n - 1 |-> intersections[index].materialId]]

\* lines 599-600: the reorderings thrust::sort_by_key can apply to n keys, any
\* one that leaves them in ascending order
SortPerms(n, keys) ==
    {f \in Injections(n) : \A i, j \in 0 .. n - 1 : i < j => keys[f[i]] <= keys[f[j]]}

Permuted(arr, n, f) == [i \in DOMAIN arr |-> IF i < n THEN arr[f[i]] ELSE arr[i]]

\* ------------------------------------------------------------------ session
\* the single-ray variable, idle while the renderer runs
NoQuery == [geoms |-> << >>, tris |-> << >>, state |-> "off"]

\* the second run, absent while one run is followed
NoTwin == [on |-> FALSE]

\* lines 103-131: the device buffers of a new session, and the host before
\* the first call
deviceInit ==
    /\ iter = 0
    /\ depth = 0
    /\ num_paths = 0
    /\ pc = "idle"
    /\ dev_image = [s \in Slots |-> Black]
    /\ dev_paths = [s \in Slots |-> UnsetPath]
    /\ dev_first_paths = [s \in Slots |-> UnsetPath]
    /\ dev_intersections = ClearIntersections
    /\ g_passes = 0
    /\ g_shades = [s \in Slots |-> 0]
    /\ g_emit = [s \in Slots |-> 0]
    /\ g_miss = [s \in Slots |-> 0]
    /\ g_gathered = [s \in Slots |-> 0]
    /\ g_sum = [s \in Slots |-> Black]
    /\ g_keys = {}

\* lines 100-132, for a scene, camera and trace depth the caller loaded
pathtraceInit(cb, ms) ==
    /\ cam \in {[resolution |-> r] : r \in Resolutions}
    /\ traceDepth \in 0 .. MaxTraceDepth
    /\ scene \in Scenes
    /\ CACHEBOUNCE = cb
    /\ MATERIALS = ms
    /\ deviceInit

\* the history of a call starts empty
ResetHistory ==
    /\ g_passes' = 0
    /\ g_shades' = [s \in Slots |-> 0]
    /\ g_emit' = [s \in Slots |-> 0]
    /\ g_miss' = [s \in Slots |-> 0]
    /\ g_gathered' = [s \in Slots |-> 0]
    /\ UNCHANGED g_sum

\* lines 464-543: entry of pathtrace up to the loop
BeginIter ==
    /\ pc = "idle"
    /\ iter < MaxIter
    /\ iter' = iter + 1
    /\ num_paths' = pixelcount
    /\ depth' = 0
    /\ pc' = "loop"
    /\ ResetHistory
    /\ g_keys' = IF CACHEBOUNCE /\ iter' # 1 THEN {} ELSE GenEngines(cam, iter')
    /\ IF CACHEBOUNCE
       THEN IF iter' = 1
            THEN /\ dev_first_paths' = generateRayFromCamera(cam, traceDepth)
                 /\ \E uninit \in UninitDraws(num_paths', dev_first_paths', scene) :
                       dev_intersections' =
                           computeIntersections(depth', num_paths', dev_first_paths', scene,
                                                dev_intersections, uninit, iter')
                 /\ UNCHANGED dev_paths
            ELSE /\ dev_paths' = dev_first_paths
                 /\ UNCHANGED <<dev_first_paths, dev_intersections>>
       ELSE /\ dev_paths' = generateRayFromCamera(cam, traceDepth)
            /\ UNCHANGED <<dev_first_paths, dev_intersections>>
    /\ UNCHANGED <<config, dev_image, q, twin>>

\* the loop cannot run past this depth; it only stops a broken exit test
DepthCap == MaxTraceDepth + 3

\* lines 549-583 with the cache off, or past depth 0 with it on
Intersect ==
    /\ pc = "loop"
    /\ ~(CACHEBOUNCE /\ depth = 0)
    /\ depth < DepthCap
    /\ \E uninit \in UninitDraws(num_paths, dev_paths, scene) :
          dev_intersections' =
              computeIntersections(depth, num_paths, dev_paths, scene,
                                   ClearIntersections, uninit, iter)
    /\ depth' = depth + 1
    /\ pc' = IF MATERIALS THEN "sort" ELSE "shade"
    /\ UNCHANGED <<config, iter, num_paths, dev_paths, dev_first_paths, dev_image, ghosts, q, twin>>

\* lines 549-559: the first trip round the loop with the cache on
CachedBounce ==
    /\ pc = "loop"
    /\ CACHEBOUNCE /\ depth = 0
    /\ dev_intersections' = ClearIntersections
    /\ dev_paths' = dev_first_paths
    /\ depth' = depth + 1
    /\ UNCHANGED <<config, iter, num_paths, pc, dev_first_paths, dev_image, ghosts, q, twin>>

\* lines 604-611
Shade ==
    /\ pc = "shade"
    /\ \E dirs \in ScatterDraws(num_paths, dev_intersections, dev_paths, scene.materials) :
          dev_paths' = shadeMaterial(num_paths, dev_intersections, dev_paths,
                                     scene.materials, dirs)
    /\ pc' = "partition"
    /\ g_passes' = g_passes + 1
    /\ LET slotOf(id) == CHOOSE s \in Slots : dev_paths[s].g_id = id
           active(id) == \E s \in Slots : s < num_paths /\ dev_paths[s].g_id = id
           live(id) == active(id) /\ dev_paths[slotOf(id)].remainingBounces > 0
           hit(id) == dev_intersections[slotOf(id)].t > 0
           mat(id) == scene.materials[dev_intersections[slotOf(id)].materialId + 1]
       IN /\ g_shades' = [id \in Slots |-> g_shades[id] + IF active(id) THEN 1 ELSE 0]
          /\ g_emit' = [id \in Slots |->
                           IF live(id) /\ hit(id) /\ mat(id).emittance > 0
                           THEN g_passes' ELSE g_emit[id]]
          /\ g_miss' = [id \in Slots |->
                           IF live(id) /\ ~hit(id) THEN g_passes' ELSE g_miss[id]]
    /\ g_keys' = g_keys \cup ShadeEngines(iter, num_paths, dev_intersections, dev_paths, depth)
    /\ UNCHANGED <<config, iter, depth, num_paths, dev_first_paths, dev_intersections,
                   dev_image, g_gathered, g_sum, q, twin>>

\* lines 616-617
Compact ==
    /\ pc = "partition"
    /\ \E r \in partition(dev_paths, num_paths) :
          /\ dev_paths' = r.paths
          /\ num_paths' = r.end
    /\ pc' = "test"
    /\ UNCHANGED <<config, iter, depth, dev_first_paths, dev_intersections, dev_image,
                   ghosts, q, twin>>

\* lines 621-625
LoopTest ==
    /\ pc = "test"
    /\ IF iterationComplete(depth, traceDepth, num_paths)
       THEN /\ num_paths' = GatherCount(num_paths, pixelcount)
            /\ pc' = "gather"
       ELSE /\ pc' = "loop"
            /\ UNCHANGED num_paths
    /\ UNCHANGED <<config, iter, depth, dev_paths, dev_first_paths, dev_intersections,
                   dev_image, ghosts, q, twin>>

\* lines 628-640: finalGather, and the return to the caller
Gather ==
    /\ pc = "gather"
    /\ dev_image' = finalGather(num_paths, dev_image, dev_paths)
    /\ pc' = "idle"
    /\ g_gathered' = [id \in Slots |->
                         Cardinality({s \in Slots : s < num_paths /\ dev_paths[s].g_id = id})]
    /\ g_sum' = [p \in Slots |->
                    LET mine == {s \in Slots : dev_paths[s].g_id = p}
                    IN IF mine = {} THEN g_sum[p]
                       ELSE AddVec(g_sum[p], dev_paths[CHOOSE s \in mine : TRUE].color)]
    /\ UNCHANGED <<config, iter, depth, num_paths, dev_paths, dev_first_paths,
                   dev_intersections, g_passes, g_shades, g_emit, g_miss, g_keys, q, twin>>

\* lines 595-602, compiled in by MATERIALS; the sort is a function of the
\* keys, so two calls on equal keys apply the same reordering
SortByMaterial ==
    /\ pc = "sort"
    /\ LET ids == setMaterialIds(num_paths, dev_intersections)
       IN \E f \in SortPerms(num_paths, ids.pathIds), g \in SortPerms(num_paths, ids.isectIds) :
             /\ ids.pathIds = ids.isectIds => f = g
             /\ dev_paths' = Permuted(dev_paths, num_paths, f)
             /\ dev_intersections' = Permuted(dev_intersections, num_paths, g)
    /\ pc' = "shade"
    /\ UNCHANGED <<config, iter, depth, num_paths, dev_first_paths, dev_image, ghosts, q, twin>>

\* ------------------------------------------------------------------ the build as compiled
Init == pathtraceInit(FALSE, FALSE) /\ q = NoQuery /\ twin = NoTwin

Next == BeginIter \/ Intersect \/ Shade \/ Compact \/ LoopTest \/ Gather

Spec == Init /\ [][Next]_vars

\* with a fair scheduler the host thread keeps running
FairSpec == Spec /\ WF_vars(Next)

\* ------------------------------------------------------------------ CACHEBOUNCE 1
InitCache == pathtraceInit(TRUE, FALSE) /\ q = NoQuery /\ twin = NoTwin

NextCache == BeginIter \/ CachedBounce \/ Intersect \/ Shade \/ Compact \/ LoopTest \/ Gather

SpecCache == InitCache /\ [][NextCache]_vars

\* ------------------------------------------------------------------ MATERIALS 0 or 1
InitSort == q = NoQuery /\ twin = NoTwin /\ \E ms \in BOOLEAN : pathtraceInit(FALSE, ms)

NextSort == BeginIter \/ Intersect \/ SortByMaterial \/ Shade \/ Compact \/ LoopTest \/ Gather

SpecSort == InitSort /\ [][NextSort]_vars

\* ------------------------------------------------------------------ one ray
\* The primitives one ray meets, each with the distance its test returns.
\* Material ids tell the primitives apart: geoms[i] has i - 1, triangles[p]
\* has MaxGeoms + p - 1.
GeomChoices ==
    {[type |-> ty, t |-> t] : ty \in {"CUBE", "SPHERE"}, t \in {-1} \cup 1..MaxT}
    \cup {[type |-> "BV", t |-> t] : t \in {-1, 1}}

SeqsUpTo(S, n) == UNION {[1..k -> S] : k \in 0..n}

Queries ==
    {[geoms |-> [i \in DOMAIN g |-> [type |-> g[i].type, materialid |-> i - 1, t |-> g[i].t]],
      tris |-> [p \in DOMAIN tt |->
                   [type |-> "TRIANGLE", materialid |-> MaxGeoms + p - 1, t |-> tt[p]]],
      state |-> "ready"] :
        g \in SeqsUpTo(GeomChoices, MaxGeoms), tt \in SeqsUpTo({-1} \cup 1..MaxT, MaxTris)}

\* a bounding volume encloses its mesh: a ray that hits a triangle passes the
\* bounding test of a BV node
Enclosed(qr) ==
    (\E p \in DOMAIN qr.tris : qr.tris[p].t > 0)
        => \E i \in DOMAIN qr.geoms :
              qr.geoms[i].type = "BV" /\ boundingVolumeIntersectionTest(qr.geoms[i])

InitIsect ==
    /\ pathtraceInit(FALSE, FALSE)
    /\ cam = [resolution |-> [x |-> 1, y |-> 1]]
    /\ traceDepth = 0
    /\ scene = EmptyScene
    /\ q \in {qr \in Queries : Enclosed(qr)}
    /\ twin = NoTwin

\* one thread of computeIntersections on a cleared intersection
Query ==
    /\ q.state = "ready"
    /\ \E t0 \in UninitT(q.geoms, q.tris) :
          q' = [geoms |-> q.geoms, tris |-> q.tris, state |-> "done", t0 |-> t0,
                out |-> computeIntersection(q.geoms, q.tris, ZeroIntersection, t0)]
    /\ UNCHANGED <<config, iter, depth, num_paths, pc, dev_paths, dev_first_paths,
                   dev_intersections, dev_image, ghosts, twin>>

NextIsect == Query

SpecIsect == InitIsect /\ [][NextIsect]_vars

\* ------------------------------------------------------------------ two runs of one call
\* Two runs of the same call of pathtrace on the same session, side by side:
\* the first in dev_paths, dev_intersections, num_paths and dev_image, the
\* second in twin.  Every kernel launch is made in both; thrust::partition
\* picks an order in each run on its own.  An engine made with the same
\* (iter, idx, depth) gives the same samples in both runs, whatever the hash
\* is, so the thread idx of the launch at one depth draws the same direction
\* in both.  Two paths must stay active after the first partition and scatter
\* again for the order to show, so the camera and the trace depth go one past
\* the bounds of the single run.
PairResolutions ==
    {r \in [x : 1 .. MaxPixels + 1, y : 1 .. MaxPixels + 1] : r.x * r.y <= MaxPixels + 1}

\* the scenes in which no thread reads the uninitialised t
PairScenes ==
    {sc \in Scenes :
        \A d \in RayDirs : UninitT(ForRay(sc.geoms, d), ForRay(sc.triangles, d)) = {0}}

InitPair ==
    /\ cam \in {[resolution |-> r] : r \in PairResolutions}
    /\ traceDepth \in 0 .. MaxTraceDepth + 1
    /\ scene \in PairScenes
    /\ CACHEBOUNCE = FALSE
    /\ MATERIALS = FALSE
    /\ deviceInit
    /\ q = NoQuery
    /\ twin = [on |-> TRUE, paths |-> dev_paths, intersections |-> dev_intersections,
               num_paths |-> 0, image |-> dev_image, done |-> <<FALSE, FALSE>>]

\* lines 464-543 in both runs
PairBegin ==
    /\ pc = "idle" /\ iter = 0
    /\ iter' = 1
    /\ depth' = 0
    /\ pc' = "loop"
    /\ num_paths' = pixelcount
    /\ dev_paths' = generateRayFromCamera(cam, traceDepth)
    /\ twin' = [twin EXCEPT !.paths = generateRayFromCamera(cam, traceDepth),
                            !.num_paths = pixelcount,
                            !.done = <<FALSE, FALSE>>]
    /\ UNCHANGED <<config, dev_first_paths, dev_intersections, dev_image, ghosts, q>>

\* lines 549-583 in every run still in its loop
PairIntersect ==
    /\ pc = "loop"
    /\ depth < DepthCap
    /\ depth' = depth + 1
    /\ pc' = "shade"
    /\ IF twin.done[1] THEN UNCHANGED dev_intersections
       ELSE \E uninit \in UninitDraws(num_paths, dev_paths, scene) :
               dev_intersections' =
                   computeIntersections(depth, num_paths, dev_paths, scene,
                                        ClearIntersections, uninit, iter)
    /\ IF twin.done[2] THEN UNCHANGED twin
       ELSE \E uninit \in UninitDraws(twin.num_paths, twin.paths, scene) :
               twin' = [twin EXCEPT !.intersections =
                           computeIntersections(depth, twin.num_paths, twin.paths, scene,
                                                ClearIntersections, uninit, iter)]
    /\ UNCHANGED <<config, iter, num_paths, dev_paths, dev_first_paths, dev_image, ghosts, q>>

\* lines 604-611 in every run still in its loop; dirs[idx] is what the engine
\* makeSeededRandomEngine(iter, idx, depth) samples
PairShade ==
    /\ pc = "shade"
    /\ pc' = "partition"
    /\ \E dirs \in [Slots -> RayDirs] :
          /\ \A idx \in Slots :
                (/\ idx \notin Scattering(num_paths, dev_intersections, dev_paths,
                                          scene.materials)
                 /\ idx \notin Scattering(twin.num_paths, twin.intersections, twin.paths,
                                          scene.materials))
                    => dirs[idx] = "a"
          /\ dev_paths' = IF twin.done[1] THEN dev_paths
                          ELSE shadeMaterial(num_paths, dev_intersections, dev_paths,
                                             scene.materials, dirs)
          /\ twin' = IF twin.done[2] THEN twin
                     ELSE [twin EXCEPT !.paths =
                              shadeMaterial(twin.num_paths, twin.intersections, twin.paths,
                                            scene.materials, dirs)]
    /\ UNCHANGED <<config, iter, depth, num_paths, dev_first_paths, dev_intersections,
                   dev_image, ghosts, q>>

\* lines 616-617 in every run still in its loop
PairCompact ==
    /\ pc = "partition"
    /\ pc' = "test"
    /\ IF twin.done[1] THEN UNCHANGED <<dev_paths, num_paths>>
       ELSE \E r \in partition(dev_paths, num_paths) :
               /\ dev_paths' = r.paths
               /\ num_paths' = r.end
    /\ IF twin.done[2] THEN UNCHANGED twin
       ELSE \E r \in partition(twin.paths, twin.num_paths) :
               twin' = [twin EXCEPT !.paths = r.paths, !.num_paths = r.end]
    /\ UNCHANGED <<config, iter, depth, dev_first_paths, dev_intersections, dev_image,
                   ghosts, q>>

\* lines 621-625 in every run still in its loop
PairTest ==
    /\ pc = "test"
    /\ LET out1 == twin.done[1] \/ iterationComplete(depth, traceDepth, num_paths)
           out2 == twin.done[2] \/ iterationComplete(depth, traceDepth, twin.num_paths)
       IN /\ num_paths' = IF out1 THEN GatherCount(num_paths, pixelcount) ELSE num_paths
          /\ twin' = [twin EXCEPT
                         !.num_paths = IF out2 THEN GatherCount(twin.num_paths, pixelcount)
                                       ELSE twin.num_paths,
                         !.done = <<out1, out2>>]
          /\ pc' = IF out1 /\ out2 THEN "gather" ELSE "loop"
    /\ UNCHANGED <<config, iter, depth, dev_paths, dev_first_paths, dev_intersections,
                   dev_image, ghosts, q>>

\* lines 628-640 in both runs
PairGather ==
    /\ pc = "gather"
    /\ pc' = "idle"
    /\ dev_image' = finalGather(num_paths, dev_image, dev_paths)
    /\ twin' = [twin EXCEPT !.image = finalGather(twin.num_paths, twin.image, twin.paths)]
    /\ UNCHANGED <<config, iter, depth, num_paths, dev_paths, dev_first_paths,
                   dev_intersections, ghosts, q>>

NextPair == PairBegin \/ PairIntersect \/ PairShade \/ PairCompact \/ PairTest \/ PairGather

SpecPair == InitPair /\ [][NextPair]_vars

\* ------------------------------------------------------------------ helpers of the claims
Max(a, b) == IF a >= b THEN a ELSE b

\* the slot that holds the path generated for pixel `id`
SlotOf(paths, id) == CHOOSE s \in DOMAIN paths : paths[s].g_id = id

Copies(paths, n, r) == Cardinality({i \in 0 .. n - 1 : paths[i] = r})

\* ------------------------------------------------------------------ C1
\* C1: when a call of pathtrace returns, finalGather has added every one of the
\* pixelcount paths issued in that call exactly once, whichever way the bounce
\* loop ended and at whatever depth the path terminated.
C1_EveryPathGatheredOnce ==
    (pc = "idle" /\ iter > 0) => \A id \in Slots : g_gathered[id] = 1

\* a call that left the loop early, on an empty active set, with the paths
\* reordered by the partition
C1_Witness ==
    /\ pc = "idle" /\ iter > 0
    /\ depth < traceDepth
    /\ \E s \in Slots : dev_paths[s].g_id # s
    /\ \A id \in Slots : g_gathered[id] = 1

\* ------------------------------------------------------------------ C2
\* C2 as stated: a path is in the active prefix of at most traceDepth
\* shadeMaterial launches, and of exactly traceDepth only if it never hit an
\* emitter and never missed.
C2_AsStated ==
    \A id \in Slots :
        /\ g_shades[id] <= traceDepth
        /\ g_shades[id] = traceDepth => (g_emit[id] = 0 /\ g_miss[id] = 0)

\* C2 amended: a path is in the active prefix of at most max(traceDepth, 1)
\* launches; once it hit an emitter or missed it is in no later one, so it is
\* in exactly traceDepth >= 1 launches only if it neither hit an emitter nor
\* missed before the last of them.
C2_ShadesBounded ==
    \A id \in Slots :
        /\ g_shades[id] <= Max(traceDepth, 1)
        /\ g_emit[id] # 0 => g_shades[id] = g_emit[id]
        /\ g_miss[id] # 0 => g_shades[id] = g_miss[id]
        /\ (traceDepth >= 1 /\ g_shades[id] = traceDepth)
               => (g_emit[id] \in {0, traceDepth} /\ g_miss[id] \in {0, traceDepth})

\* a path that scattered and then hit an emitter in its traceDepth-th launch
C2_Witness ==
    /\ pc = "gather" /\ traceDepth >= 2
    /\ \E id \in Slots : g_shades[id] = traceDepth /\ g_emit[id] = traceDepth

\* ------------------------------------------------------------------ C3
\* C3: every thrust::partition step permutes the active prefix so that exactly
\* the paths with remainingBounces > 0 fill [0, new_active) and the terminated
\* ones [new_active, active_before), with no path duplicated or dropped, and the
\* new active count is the number of paths with remainingBounces > 0.
C3_CompactionPartitions ==
    [][pc = "partition" =>
        LET before == num_paths
            after == num_paths'
        IN /\ after \in 0 .. before
           /\ \A i \in 0 .. before - 1 :
                 (i < after) <=> (dev_paths'[i].remainingBounces > 0)
           /\ \A i \in 0 .. before - 1 :
                 /\ Copies(dev_paths', before, dev_paths[i]) = Copies(dev_paths, before, dev_paths[i])
                 /\ Copies(dev_paths, before, dev_paths'[i]) = Copies(dev_paths', before, dev_paths'[i])
           /\ \A i \in Slots : i >= before => dev_paths'[i] = dev_paths[i]
           /\ after = Cardinality({i \in 0 .. before - 1 : dev_paths[i].remainingBounces > 0})
           /\ Cardinality({i \in 0 .. before - 1 : dev_paths'[i].remainingBounces > 0})
              + Cardinality({i \in 0 .. before - 1 : dev_paths'[i].remainingBounces <= 0})
              = before
    ]_vars

\* a partition that split the prefix into both parts and moved a path
C3_Witness ==
    /\ pc = "test"
    /\ 0 < num_paths /\ num_paths < pixelcount
    /\ dev_paths[0].g_id # 0
    /\ dev_paths[0].remainingBounces > 0
    /\ \E s \in Slots : dev_paths[s].remainingBounces = 0

\* ------------------------------------------------------------------ C4
\* C4: the pixelIndex the ray generator gave a path (x + y * width, the pixel
\* it was generated for) is the same after every intersection, material sort,
\* shading and partition step, wherever the path was moved to, and finalGather
\* adds the path's colour into that pixel of the image.
C4_PixelIndexKept ==
    [][/\ \A s \in Slots :
             dev_paths'[s].g_id # -1 => dev_paths'[s].pixelIndex = dev_paths'[s].g_id
       /\ pc \in {"loop", "sort", "shade", "partition", "test"} =>
             \A id \in Slots :
                 /\ \E s \in Slots : dev_paths'[s].g_id = id
                 /\ dev_paths'[SlotOf(dev_paths', id)].pixelIndex
                    = dev_paths[SlotOf(dev_paths, id)].pixelIndex
       /\ pc = "gather" =>
             \A id \in Slots :
                 dev_image'[id] = AddVec(dev_image[id], dev_paths[SlotOf(dev_paths, id)].color)
    ]_vars

\* a call with the material sort on has returned; the path generated for
\* pixel 0 sits in another slot and its colour is in pixel 0 of the image
C4_Witness ==
    /\ pc = "idle" /\ iter = 1 /\ MATERIALS
    /\ dev_paths[0].g_id # 0
    /\ dev_paths[SlotOf(dev_paths, 0)].color # Black
    /\ dev_image[0] = dev_paths[SlotOf(dev_paths, 0)].color
    /\ dev_image[0] # dev_paths[0].color

C5_InLoop == {"loop", "shade", "partition", "test"}

\* the number of steps the call can still take inside the loop: four for each
\* pass not yet shaded, and the rest of the pass under way
C5_Rank ==
    4 * (Max(traceDepth, 1) - g_passes)
    + (CASE pc = "loop" -> 3 [] pc = "shade" -> 2
         [] pc = "partition" -> 5 [] pc = "test" -> 4 [] OTHER -> 0)

C6_EmptySceneAllBlack ==
    (scene = EmptyScene /\ g_passes >= 1) =>
        /\ \A s \in Slots : dev_paths[s].color = Black /\ dev_paths[s].remainingBounces = 0
        /\ pc = "test" => num_paths = 0
        /\ g_passes = 1

\* ------------------------------------------------------------------ C7
\* the colour an emitter hit leaves in a fresh path
EmissionColor == MulVec(White, ScaleVec(LightMat.color, LightMat.emittance))

\* C7: the image is zero when the session starts, and at every moment it is,
\* pixel by pixel, the sum over the finished calls of the final colour of the
\* path generated for that pixel: nothing averages, resets or rescales it.  In
\* the scene where every path ends every call with the emission colour, the
\* image after k calls is k times that colour.
C7_ImageIsSumOfCalls ==
    /\ iter = 0 => \A p \in Slots : dev_image[p] = Black
    /\ dev_image = g_sum
    /\ (scene = EmissiveScene /\ traceDepth >= 1 /\ pc = "idle") =>
           \A p \in Slots : dev_image[p] = ScaleVec(EmissionColor, iter)

\* two calls have returned and pixel 0 holds twice the emission colour
C7_Witness ==
    /\ pc = "idle" /\ iter = 2
    /\ scene = EmissiveScene /\ traceDepth >= 1
    /\ dev_image[0] = ScaleVec(EmissionColor, 2)
    /\ dev_image[0] # Black

\* ------------------------------------------------------------------ C8
Min(S) == CHOOSE x \in S : \A y \in S : x <= y

\* the distances of the tests the scan runs for the ray: every analytic
\* primitive, and every triangle if the ray passes a bounding volume
TestedDistances(qr) ==
    {qr.geoms[i].t : i \in {j \in DOMAIN qr.geoms : qr.geoms[j].type \in {"CUBE", "SPHERE"}}}
    \cup (IF \E i \in DOMAIN qr.geoms :
                 qr.geoms[i].type = "BV" /\ boundingVolumeIntersectionTest(qr.geoms[i])
          THEN {qr.tris[p].t : p \in DOMAIN qr.tris}
          ELSE {})

NearestPositive(qr) ==
    LET pos == {t \in TestedDistances(qr) : t > 0}
    IN IF pos = {} THEN -1 ELSE Min(pos)

\* C8: whatever the order of the primitives, the intersection written for a
\* ray has the smallest positive distance among all sphere, box and triangle
\* tests run for it (here for the rays whose local t is assigned before it is
\* read).
C8_NearestHitWins ==
    (q.state = "done" /\ UninitT(q.geoms, q.tris) = {0}) => q.out.t = NearestPositive(q)

\* ------------------------------------------------------------------ C9
\* the scene is a mesh behind bounding volumes and nothing else, and the ray
\* passes the first of them
OnlyMesh(qr) ==
    /\ Len(qr.geoms) >= 1
    /\ \A i \in DOMAIN qr.geoms : qr.geoms[i].type = "BV"
    /\ boundingVolumeIntersectionTest(qr.geoms[1])

\* triangle p is the nearest positive hit of the ray
NearestTriangle(qr, p) ==
    /\ qr.tris[p].t > 0
    /\ \A r \in DOMAIN qr.tris : r # p => (qr.tris[r].t <= 0 \/ qr.tris[r].t > qr.tris[p].t)

\* C9: with only a bounding-volume-gated mesh in the scene, a ray whose nearest
\* positive triangle hit is triangle T at distance t0 gets t = t0 and the
\* material id of T, read from the triangles.
C9_MeshHitReportsTriangle ==
    (q.state = "done" /\ OnlyMesh(q)) =>
        \A p \in DOMAIN q.tris :
            NearestTriangle(q, p) =>
                /\ q.out.t = q.tris[p].t
                /\ q.out.materialId = q.tris[p].materialid

\* two triangles are hit, the second one nearer, and it is the one reported
C9_Witness ==
    /\ q.state = "done" /\ OnlyMesh(q)
    /\ Len(q.tris) >= 2
    /\ q.tris[1].t > q.tris[2].t /\ q.tris[2].t > 0
    /\ NearestTriangle(q, 2)
    /\ q.out.t = q.tris[2].t
    /\ q.out.materialId = q.tris[2].materialid

\* ------------------------------------------------------------------ C10
\* C10: with the first-bounce cache compiled in, a call still gives every path
\* the shading passes it gets without the cache: a path that neither hit an
\* emitter nor missed has been shaded max(traceDepth, 1) times when the loop is
\* left, and no path is accumulated with bounces remaining.
C10_CacheKeepsContract ==
    pc = "gather" =>
        \A id \in Slots :
            /\ (g_emit[id] = 0 /\ g_miss[id] = 0) => g_shades[id] = Max(traceDepth, 1)
            /\ dev_paths[SlotOf(dev_paths, id)].remainingBounces = 0

\* ------------------------------------------------------------------ C11
\* C11: two runs of the same call that differ only in the order thrust::partition
\* leaves the paths in end with the same value in every pixel of the image.
C11_PartitionOrderIrrelevant ==
    (twin.on /\ pc = "idle" /\ iter = 1) => twin.image = dev_image

\* ------------------------------------------------------------------ C12
\* C12: a call made on a session with traceDepth = 0 fails and accumulates
\* nothing: the image of such a session stays as pathtraceInit left it.
C12_ZeroDepthAccumulatesNothing ==
    traceDepth = 0 => \A p \in Slots : dev_image[p] = Black

\* ------------------------------------------------------------------ C13
\* C13: one launch of shadeMaterial changes the remainingBounces of a path in
\* exactly one way: to 0 on a hit (t > 0) of an emissive material or on a miss
\* (t <= 0), down by exactly 1 on a hit of a non-emissive material, and a path
\* that enters with remainingBounces = 0, or outside the active prefix, is
\* left as it is.  So remainingBounces never goes up between issuance and
\* accumulation and stays within 0 .. traceDepth.
C13_BouncesOnlyGoDown ==
    /\ [][pc = "shade" =>
            \A s \in Slots :
                LET before == dev_paths[s]
                    after == dev_paths'[s]
                    isect == dev_intersections[s]
                IN IF s < num_paths /\ before.remainingBounces > 0
                   THEN IF isect.t > 0
                        THEN IF scene.materials[isect.materialId + 1].emittance > 0
                             THEN after.remainingBounces = 0
                             ELSE after.remainingBounces = before.remainingBounces - 1
                        ELSE after.remainingBounces = 0
                   ELSE after = before]_vars
    /\ [][pc # "idle" =>
            \A id \in Slots :
                dev_paths'[SlotOf(dev_paths', id)].remainingBounces
                    <= dev_paths[SlotOf(dev_paths, id)].remainingBounces]_vars
    /\ [](\A s \in Slots : dev_paths[s].remainingBounces \in 0 .. traceDepth)

\* one launch has ended a path on the light and taken one bounce from another
C13_Witness ==
    /\ pc = "partition" /\ g_passes = 1 /\ traceDepth >= 2
    /\ \E s \in Slots :
          dev_paths[s].remainingBounces = 0 /\ g_emit[dev_paths[s].g_id] = 1
    /\ \E s \in Slots :
          dev_paths[s].remainingBounces = traceDepth - 1 /\ dev_paths[s].color # White

\* ------------------------------------------------------------------ C14
\* what one thread of computeIntersections can write for a ray into a cleared
\* slot
FreshIntersections(ray) ==
    {computeIntersection(ForRay(scene.geoms, ray), ForRay(scene.triangles, ray),
                         ZeroIntersection, t0) :
        t0 \in UninitT(ForRay(scene.geoms, ray), ForRay(scene.triangles, ray))}

\* C14: in the build as compiled, whenever shadeMaterial is about to run, the
\* intersection in every active slot i was computed in this depth step, from
\* the ray the path now in slot i has, and the slots past the active prefix
\* are cleared; one depth step runs clear and intersect, then shade, then
\* compact.  No intersection of an earlier depth or of another path is shaded,
\* although the partition reorders the paths and not the intersections.
C14_ShaderReadsOwnIntersection ==
    /\ [](pc = "shade" =>
            \A i \in Slots :
                IF i < num_paths
                THEN /\ dev_intersections[i].g_src = <<iter, depth - 1, dev_paths[i].g_id>>
                     /\ \E fresh \in FreshIntersections(dev_paths[i].ray) :
                           /\ dev_intersections[i].t = fresh.t
                           /\ dev_intersections[i].materialId = fresh.materialId
                ELSE dev_intersections[i] = ZeroIntersection)
    /\ [][/\ pc = "loop" => pc' = "shade" /\ depth' = depth + 1
          /\ pc = "shade" => pc' = "partition" /\ depth' = depth
          /\ pc = "partition" => pc' = "test" /\ depth' = depth
          /\ pc = "test" => pc' \in {"loop", "gather"} /\ depth' = depth]_vars

\* the second pass is about to shade a path that the partition moved to
\* another slot, with the intersection of its scattered ray
C14_Witness ==
    /\ pc = "shade" /\ depth = 2 /\ num_paths >= 1
    /\ dev_paths[0].g_id # 0
    /\ dev_paths[0].color # White
    /\ dev_intersections[0].g_src = <<iter, 1, dev_paths[0].g_id>>

C16_NoHitWritesMiss ==
    (q.state = "done" /\ NearestPositive(q) = -1) => q.out.t = -1

\* ------------------------------------------------------------------ C17
\* C17: when the loop has been left, finalGather runs over all pixelcount
\* slots and their pixelIndex values are pairwise distinct, a permutation of
\* 0 .. pixelcount - 1: no two threads of finalGather add into the same slot
\* of the image.
C17_GatherSlotsDistinct ==
    pc = "gather" =>
        /\ num_paths = pixelcount
        /\ \A s1, s2 \in Slots :
              dev_paths[s1].pixelIndex = dev_paths[s2].pixelIndex => s1 = s2
        /\ {dev_paths[s].pixelIndex : s \in Slots} = Slots

\* finalGather is about to run over paths that the partition has reordered
C17_Witness ==
    /\ pc = "gather" /\ pixelcount >= 2 /\ num_paths = pixelcount
    /\ dev_paths[0].pixelIndex # 0
    /\ {dev_paths[s].pixelIndex : s \in Slots} = Slots

\* ------------------------------------------------------------------ C18
\* C18: a path that the partition has left outside the active prefix has
\* remainingBounces = 0, and no later clear, intersection, sort, shading or
\* partition step of the call writes its slot: colour, pixelIndex and
\* remainingBounces stay as they were when it ended, until finalGather reads
\* them.
C18_TerminatedPathsUntouched ==
    /\ [][(pc \in {"loop", "sort", "shade", "partition", "test"}) =>
            \A s \in Slots : s >= num_paths => dev_paths'[s] = dev_paths[s]]_vars
    /\ [](pc \in {"loop", "sort", "shade", "partition", "test"} =>
            \A s \in Slots : s >= num_paths => dev_paths[s].remainingBounces = 0)
    /\ [][pc = "gather" =>
            \A id \in Slots :
                dev_image'[dev_paths[SlotOf(dev_paths, id)].pixelIndex]
                    = AddVec(dev_image[dev_paths[SlotOf(dev_paths, id)].pixelIndex],
                             dev_paths[SlotOf(dev_paths, id)].color)]_vars

\* after the second partition a path that ended in the first pass is still in
\* the slot the first partition gave it, with the colour of the light
C18_Witness ==
    /\ pc = "test" /\ g_passes = 2
    /\ \E s \in Slots :
          /\ s >= num_paths
          /\ g_shades[dev_paths[s].g_id] = 1
          /\ g_emit[dev_paths[s].g_id] = 1
          /\ dev_paths[s].remainingBounces = 0
          /\ dev_paths[s].color = EmissionColor

\* ------------------------------------------------------------------ C19
\* C19: within one call every random engine is made from its own
\* (iter, index, depth) key: generateRayFromCamera makes the engine of a pixel
\* with depth 0, shadeMaterial that of an active path with the current depth,
\* and no two engines of the call have the same key.
C19_EngineKeysDistinct ==
    /\ \A e \in g_keys : e.by = "generateRayFromCamera" => e.rng.depth = 0
    /\ \A e \in g_keys : e.by = "shadeMaterial" => e.rng.depth = e.y /\ e.y >= 1
    /\ \A e1, e2 \in g_keys : e1.rng = e2.rng => e1 = e2

\* ------------------------------------------------------------------ C20
\* C20: every call enters the bounce loop with num_paths = pixelcount; while
\* the loop runs num_paths never goes up from one step to the next; and every
\* path in the active prefix at the start of an intersection pass at depth >= 1
\* has remainingBounces > 0.
C20_ActiveCountShrinks ==
    /\ [][pc = "idle" => (pc' = "loop" /\ depth' = 0 /\ num_paths' = pixelcount)]_vars
    /\ [][(pc \in {"loop", "shade", "partition"} \/ (pc = "test" /\ pc' = "loop"))
             => num_paths' <= num_paths]_vars
    /\ [](pc = "loop" => num_paths <= pixelcount)
    /\ [](pc = "loop" /\ depth >= 1 =>
            /\ num_paths >= 1
            /\ \A s \in Slots : s < num_paths => dev_paths[s].remainingBounces > 0)

\* the second call is about to intersect, at depth 1, the one path the first
\* pass left active
C20_Witness ==
    /\ pc = "loop" /\ iter = 2 /\ depth = 1
    /\ num_paths >= 1 /\ num_paths < pixelcount
    /\ dev_paths[0].remainingBounces > 0
    /\ dev_paths[num_paths].remainingBounces = 0

\* ------------------------------------------------------------------ C21
\* C21 as stated: every channel of a path's throughput is >= 0 and, starting
\* from (1,1,1), is never raised by a launch of shadeMaterial, so it is never
\* above 1.
C21_AsStated ==
    \A s \in Slots : \A k \in 1 .. 3 :
        dev_paths[s].color[k] >= 0 /\ dev_paths[s].color[k] <= One

\* C21 amended: a path's throughput starts at (1,1,1) and every channel stays
\* >= 0.  For materials whose colour channels are within 0 .. 1, a scatter and
\* a miss raise no channel (a miss sets all to 0), and a path the launch does
\* not shade keeps its throughput; a hit on an emitter multiplies the
\* throughput by colour * emittance, which raises a channel when that product
\* is above 1.
C21_ThroughputAttenuated ==
    /\ [](\A s \in Slots : \A k \in 1 .. 3 : dev_paths[s].color[k] >= 0)
    /\ [](pc = "loop" /\ depth = 0 => \A s \in Slots : dev_paths[s].color = White)
    /\ [][pc = "shade" =>
            \A s \in Slots :
                LET before == dev_paths[s]
                    after == dev_paths'[s]
                    isect == dev_intersections[s]
                    material == scene.materials[isect.materialId + 1]
                IN IF s < num_paths /\ before.remainingBounces > 0
                   THEN IF isect.t > 0
                        THEN IF material.emittance > 0
                             THEN after.color =
                                      MulVec(before.color,
                                             ScaleVec(material.color, material.emittance))
                             ELSE \A k \in 1 .. 3 : after.color[k] <= before.color[k]
                        ELSE after.color = Black
                   ELSE after.color = before.color]_vars

\* one launch has raised the throughput of a path that hit the light above 1
\* and attenuated that of a path that scattered
C21_Witness ==
    /\ pc = "partition" /\ g_passes = 1
    /\ \E s \in Slots : g_emit[dev_paths[s].g_id] = 1 /\ dev_paths[s].color[1] > One
    /\ \E s \in Slots :
          /\ dev_paths[s].remainingBounces > 0
          /\ dev_paths[s].color # White
          /\ \A k \in 1 .. 3 : dev_paths[s].color[k] <= One

====
